---- MODULE Spec2Model ----
(***************************************************************************)
(* A model of tools/claude-mitm.py: the asyncio proxy that spawns the real *)
(* binary, forwards stdin/stdout/stderr and logs every line it forwards.   *)
(*                                                                         *)
(* The event loop is single threaded and cooperative: a task runs from one *)
(* await to the next without interruption, so every action below is one    *)
(* such run.  The only places a task can be left are                       *)
(*   - main:        await create_subprocess_exec, await proc.wait(),       *)
(*                  await task;                                            *)
(*   - pipe_stdin:  await connect_read_pipe, await reader.read,            *)
(*                  await proc_stdin.drain();                              *)
(*   - pipe_output: await proc_stream.read.                                *)
(* out_stream.buffer.write()/flush() in pipe_output are ordinary blocking  *)
(* calls: while the destination does not accept the bytes the thread of    *)
(* the event loop sits in the call ("running" names the task that holds    *)
(* the thread).  Whether a destination accepts the bytes at once is the    *)
(* environment's choice at each write; a pending write completes when the  *)
(* destination accepts them.                                               *)
(*                                                                         *)
(* Bytes: a stream is a sequence of bytes; NL is the newline byte and the  *)
(* k-th byte of a stream, when it is not a newline, is the number k, so    *)
(* that loss, duplication and reordering of bytes are all visible.         *)
(*                                                                         *)
(* CancelledError is a BaseException (Python 3.8 and later), so the        *)
(* "except Exception" clauses do not catch it; the finally blocks run.     *)
(* When proc.wait() returns relative to the pipes closing differs between  *)
(* Python versions, so the child's exit is not tied to the state of the    *)
(* streams here: it may be seen with data still unread.                    *)
(***************************************************************************)
EXTENDS Integers, Sequences, FiniteSets, TLC

\* ------------------------------------------------------------------ bounds
\* bytes the sources deliver in one run, over the three streams together
MaxBytes == 3
\* faults of the environment in one run (broken pipes, failed reads, an
\* unwritable log)
MaxFaults == 1
\* writes that do not complete at once in one run
MaxStalls == 1
\* reader.read(4096) returns at most this many bytes (4096 scaled down)
ReadSize == 2
\* bytes of one stream, when the Reassembler is followed alone
MaxLen == 6
\* bytes of one chunk there
MaxChunk == 4
\* lines of one file
MaxLines == 2
\* pieces (UUIDs and runs of text) of one string
MaxPieces == 2
\* items of one array
MaxItems == 2
\* anonymize_uuid calls in one run
MaxAsks == 4
\* digits of the sequence number (the 12 of "{:012d}" scaled down)
SeqWidth == 2
\* log() calls in one run, over the four tasks, when log() is followed step
\* by step
MaxCalls == 4

\* ------------------------------------------------------------------ data
NL == 0

Fwd == {"STDIN", "STDOUT", "STDERR"}
Out == {"STDOUT", "STDERR"}

\* main(), tasks = [...]: the order in which the tasks are cancelled and awaited
Tasks == <<"STDIN", "STDOUT", "STDERR">>

\* f"{direction}_ERROR" and the literal "STDIN_ERROR"
ErrTag(d) == CASE d = "STDIN" -> "STDIN_ERROR"
               [] d = "STDOUT" -> "STDOUT_ERROR"
               [] d = "STDERR" -> "STDERR_ERROR"

\* str(e).encode(): the payload of an error record (its text is not modelled)
ErrData == <<-1>>

\* proc.returncode of a child that exited (a child killed by a signal is not modelled)
RetCodes == {0, 3}

\* sys.exit(n): the status the parent sees is n modulo 256
ExitStatus(n) == n % 256

\* an uncaught exception leaves asyncio.run(main()): the interpreter exits 1
UncaughtStatus == 1

HasNL(b) == \E i \in 1..Len(b) : b[i] = NL

FirstNL(b) == CHOOSE i \in 1..Len(b) : b[i] = NL /\ \A j \in 1..(i-1) : b[j] # NL

Min(a, b) == IF a < b THEN a ELSE b

\* reader.read(4096): what is buffered, at most ReadSize bytes of it
ReadChunk(s) == SubSeq(s, 1, Min(Len(s), ReadSize))

RestAfter(s, c) == SubSeq(s, Len(c) + 1, Len(s))

\* log(direction, data) when the append succeeds: one record at the end of the file
Log_Prepend(l, dir, data) == <<[fd |-> dir, data |-> data]>> \o l
Log(l, dir, data) == Append(l, [fd |-> dir, data |-> data])

\* proc_stdin.write(data) / out_stream.buffer.write(data): the destination
\* receives the bytes after those it already has
Write_Twice(written, data) == written \o data \o data
Write(written, data) == written \o data

\* while b"\n" in buffer: line, buffer = buffer.split(b"\n", 1); if line: log(...)
\* ok is whether log() can append; when it cannot, log() raises at the first
\* non-empty line, with buffer already rebound to the rest.
RECURSIVE SplitLines(_, _, _, _)
SplitLines(buf, l, dir, ok) ==
    IF ~HasNL(buf)
    THEN [buffer |-> buf, log |-> l, raised |-> FALSE]
    ELSE LET i    == FirstNL(buf)
             line == SubSeq(buf, 1, i - 1)
             rest == SubSeq(buf, i + 1, Len(buf))
         IN  IF line = <<>>
             THEN SplitLines(rest, l, dir, ok)
             ELSE IF ok
                  THEN SplitLines(rest, Log(l, dir, line), dir, ok)
                  ELSE [buffer |-> rest, log |-> l, raised |-> TRUE]

\* ------------------------------------------------------------------ state
VARIABLES
    mainPc,      \* where main() is
    idx,         \* the task main's for loop is at (1..3)
    childExited, \* the child has terminated
    returncode,  \* proc.returncode, once childExited
    exitStatus,  \* the proxy's exit status, once mainPc = "exited"
    pc,          \* per Forwarder: where the task is
    cancelReq,   \* per Forwarder: task.cancel() was called on the pending task
    result,      \* per Forwarder: how the task ended ("ok", "cancelled", "error")
    cause,       \* per Forwarder: why it left its loop
    buffer,      \* per Forwarder: the local variable buffer
    chunk,       \* per Forwarder: data, while its write has not completed
    stdinClosed, \* proc_stdin.close() was called
    running,     \* the task sitting in a blocking call, or "none"
    src,         \* per stream: bytes delivered by the source and not yet read
    srcEof,      \* per stream: the source has closed
    total,       \* per stream: every byte the source delivered (history)
    fwd,         \* per stream: the bytes the loop wrote to the destination (history)
    dest,        \* per stream: every byte written to the destination
    log,         \* the records of the log file, in order
    broken,      \* per destination: a write to it fails
    sinkOk,      \* the log file can be appended to
    faults,      \* faults injected so far
    stalls,      \* writes that did not complete at once so far
    ioFailed,    \* per Forwarder: a read or a write of it has failed (history)
    atCancel,    \* per Forwarder: <<pc, buffer>> when CancelledError was thrown in it
    \* log() seen step by step (one append to the log file)
    cur,         \* the task the event loop's thread is running, or "none"
    apc,         \* per task: where it is inside log() ("idle" when outside)
    calls,       \* per task: the log() calls it has made
    file,        \* the log file: the pieces physically written, in order
    \* the Reassembler alone: the loop over the lines and the final flush
    fed,         \* every byte the reads have returned
    rbuf,        \* the local variable buffer
    records,     \* the payloads logged, in order
    ended,       \* the read returned b"" and the finally block has run
    cuts,        \* the positions in fed at which a chunk ended (history)
    \* anonymize_uuids.py: one run of anonymize_jsonl_file
    prefix,      \* the prefix of the run, "none" before it is drawn
    mapping,     \* mapping: lower-cased original UUID -> anonymized identifier
    counter,     \* counter['count']
    lineIn,      \* the last value (or UUID) handed in
    lineOut,     \* what came back for it
    asked,       \* every <<uuid, result>> of an anonymize_uuid call (history)
    lineNo       \* the calls / lines processed

\* the state of the proxy
proxyVars == <<mainPc, idx, childExited, returncode, exitStatus, pc, cancelReq, result,
               cause, buffer, chunk, stdinClosed, running, src, srcEof, total, fwd,
               dest, log, broken, sinkOk, faults, stalls, ioFailed, atCancel>>

\* the state of one append to the log file, seen step by step
appendVars == <<cur, apc, calls, file>>

\* the state of the Reassembler alone
linesVars == <<fed, rbuf, records, ended, cuts>>

\* the state of one run of anonymize_jsonl_file
anonVars == <<prefix, mapping, counter, lineIn, lineOut, asked, lineNo>>

\* what the proxy's actions leave alone
otherVars == <<appendVars, linesVars, anonVars>>

vars == <<proxyVars, appendVars, linesVars, anonVars>>

\* the tasks that call log(): main and the three Forwarders
Loggers == Fwd \cup {"main"}

\* mapping = {}: the function with the empty domain
EmptyMap == [u \in {} |-> <<>>]

mainVars == <<mainPc, idx, exitStatus>>
envVars  == <<src, srcEof, total, broken, sinkOk, childExited, returncode, stalls>>

NotCancelled == <<"none", <<>>>>

Init ==
    /\ mainPc = "startup"
    /\ idx = 1
    /\ childExited = FALSE
    /\ returncode = 0
    /\ exitStatus = 0
    /\ pc = [d \in Fwd |-> "none"]
    /\ cancelReq = [d \in Fwd |-> FALSE]
    /\ result = [d \in Fwd |-> "none"]
    /\ cause = [d \in Fwd |-> "none"]
    /\ buffer = [d \in Fwd |-> <<>>]
    /\ chunk = [d \in Fwd |-> <<>>]
    /\ stdinClosed = FALSE
    /\ running = "none"
    /\ src = [d \in Fwd |-> <<>>]
    /\ srcEof = [d \in Fwd |-> FALSE]
    /\ total = [d \in Fwd |-> <<>>]
    /\ fwd = [d \in Fwd |-> <<>>]
    /\ dest = [d \in Fwd |-> <<>>]
    /\ log = <<>>
    /\ broken = [d \in Fwd |-> FALSE]
    /\ sinkOk = TRUE
    /\ faults = 0
    /\ stalls = 0
    /\ ioFailed = [d \in Fwd |-> FALSE]
    /\ atCancel = [d \in Fwd |-> NotCancelled]
    /\ cur = "none"
    /\ apc = [t \in Loggers |-> "idle"]
    /\ calls = [t \in Loggers |-> 0]
    /\ file = <<>>
    /\ fed = <<>>
    /\ rbuf = <<>>
    /\ records = <<>>
    /\ ended = FALSE
    /\ cuts = {}
    /\ prefix = "none"
    /\ mapping = EmptyMap
    /\ counter = 0
    /\ lineIn = <<>>
    /\ lineOut = <<>>
    /\ asked = {}
    /\ lineNo = 0

\* ------------------------------------------------------------ environment
ArgsData == <<-2>>

TotalBytes == Len(total["STDIN"]) + Len(total["STDOUT"]) + Len(total["STDERR"])

SessionOpen == mainPc \in {"wait", "loop", "await", "aborting"}

\* The source of a stream delivers one more byte: the invoker on the proxy's
\* stdin, the child (while it lives) on its stdout and stderr.  What a source
\* does once the stream's Forwarder has ended or is being cancelled is seen
\* by nobody.
SourceWrite(d, nl) ==
    /\ SessionOpen
    /\ pc[d] # "done" /\ ~cancelReq[d]
    /\ ~srcEof[d]
    /\ d \in Out => ~childExited
    /\ TotalBytes < MaxBytes
    /\ LET b == IF nl THEN NL ELSE Len(total[d]) + 1
       IN  /\ src' = [src EXCEPT ![d] = Append(@, b)]
           /\ total' = [total EXCEPT ![d] = Append(@, b)]
    /\ UNCHANGED <<otherVars, mainVars, childExited, returncode, pc, cancelReq, result, cause,
                   buffer, chunk, stdinClosed, running, srcEof, fwd, dest, log,
                   broken, sinkOk, faults, stalls, ioFailed, atCancel>>

\* The source closes its end: the next read on an empty stream returns b"".
SourceClose(d) ==
    /\ SessionOpen
    /\ pc[d] # "done" /\ ~cancelReq[d]
    /\ ~srcEof[d]
    /\ srcEof' = [srcEof EXCEPT ![d] = TRUE]
    /\ UNCHANGED <<otherVars, mainVars, childExited, returncode, pc, cancelReq, result, cause,
                   buffer, chunk, stdinClosed, running, src, total, fwd, dest, log,
                   broken, sinkOk, faults, stalls, ioFailed, atCancel>>

\* The child terminates; nobody reads its stdin any more.
ChildExit(rc) ==
    /\ mainPc = "wait"
    /\ ~childExited
    /\ childExited' = TRUE
    /\ returncode' = rc
    /\ broken' = [broken EXCEPT !["STDIN"] = TRUE]
    /\ UNCHANGED <<otherVars, mainVars, pc, cancelReq, result, cause, buffer, chunk,
                   stdinClosed, running, src, srcEof, total, fwd, dest, log,
                   sinkOk, faults, stalls, ioFailed, atCancel>>

\* The reader of a destination goes away: writes to it fail from now on.
Break(d) ==
    /\ SessionOpen
    /\ pc[d] # "done"
    /\ faults < MaxFaults
    /\ ~broken[d]
    /\ broken' = [broken EXCEPT ![d] = TRUE]
    /\ faults' = faults + 1
    /\ UNCHANGED <<otherVars, mainVars, childExited, returncode, pc, cancelReq, result, cause,
                   buffer, chunk, stdinClosed, running, src, srcEof, total, fwd,
                   dest, log, sinkOk, stalls, ioFailed, atCancel>>

\* The log file becomes unwritable: open(LOG_FILE, "a") raises from now on.
SinkBreak ==
    /\ mainPc # "exited"
    /\ faults < MaxFaults
    /\ sinkOk
    /\ sinkOk' = FALSE
    /\ faults' = faults + 1
    /\ UNCHANGED <<otherVars, mainVars, childExited, returncode, pc, cancelReq, result, cause,
                   buffer, chunk, stdinClosed, running, src, srcEof, total, fwd,
                   dest, log, broken, stalls, ioFailed, atCancel>>

\* ------------------------------------------------------------- Forwarders
\* What one run of a Forwarder leaves behind: where the task is, how it ended,
\* why it left the loop, its buffer, the log, its destination, whether
\* proc_stdin.close() ran, whether a read or write failed, who holds the thread.

\* finally: if buffer: log(direction, buffer)
FlushRecord_Drop(l, d, buf) == l
FlushRecord(l, d, buf) == IF buf # <<>> THEN Log(l, d, buf) ELSE l

\* The finally block of pipe_stdin / pipe_output.  exc is what is propagating
\* when it is entered: "ok" (nothing), "cancelled" (CancelledError) or "error".
\* An exception raised inside the block replaces it.  pipe_stdin closes
\* proc_stdin there; pipe_output writes the buffer to out_stream once more,
\* and st says that this write does not complete at once.
Finally(d, buf, l, exc, why, io, dv, st) ==
    LET base == [pc |-> "done", result |-> exc, cause |-> why, buffer |-> buf,
                 log |-> l, dest |-> dv, closed |-> FALSE, io |-> io, run |-> "none"]
    IN  IF buf = <<>>
        THEN [base EXCEPT !.closed = (d = "STDIN")]
        ELSE IF ~sinkOk
        THEN [base EXCEPT !.result = "error"]
        ELSE LET l2 == FlushRecord(l, d, buf)
             IN  IF d = "STDIN"
                 THEN [base EXCEPT !.log = l2, !.closed = TRUE]
                 ELSE IF broken[d]
                 THEN [base EXCEPT !.log = l2, !.result = "error", !.io = TRUE]
                 ELSE IF st
                 THEN [base EXCEPT !.log = l2, !.pc = "finwrite", !.run = d]
                 ELSE [base EXCEPT !.log = l2, !.dest = Write(dv, buf)]

\* log(f"{direction}_ERROR", str(e).encode()) in the except clause
ErrorRecord(l, d) == Log(l, ErrTag(d), ErrData)

\* except Exception as e: log(..._ERROR, ...), then the finally block.  When
\* the log cannot be appended to, log() raises inside the except clause.
Except(d, buf, l, why, dv, st) ==
    IF sinkOk
    THEN Finally(d, buf, ErrorRecord(l, d), "ok", why, why = "error", dv, st)
    ELSE Finally(d, buf, l, "error", why, why = "error", dv, st)

\* buffer += data and the loop over the complete lines, after the write of
\* data has completed; then back to the read.
Logged(d, data, dv) ==
    LET r == SplitLines(buffer[d] \o data, log, d, sinkOk)
    IN  IF r.raised
        THEN Except(d, r.buffer, r.log, "log", dv, FALSE)
        ELSE [pc |-> "read", result |-> "none", cause |-> "none", buffer |-> r.buffer,
              log |-> r.log, dest |-> dv, closed |-> FALSE, io |-> FALSE, run |-> "none"]

Apply(d, o) ==
    /\ pc' = [pc EXCEPT ![d] = o.pc]
    /\ result' = [result EXCEPT ![d] = o.result]
    /\ cause' = [cause EXCEPT ![d] = o.cause]
    /\ buffer' = [buffer EXCEPT ![d] = o.buffer]
    /\ log' = o.log
    /\ dest' = [dest EXCEPT ![d] = o.dest]
    /\ stdinClosed' = (stdinClosed \/ o.closed)
    /\ ioFailed' = [ioFailed EXCEPT ![d] = @ \/ o.io]
    /\ running' = o.run

\* The outcome o of a run that was to end in a pending write (st) does so.
Pends(st, o) ==
    /\ st => (o.pc = "finwrite" /\ stalls < MaxStalls)
    /\ stalls' = stalls + (IF st THEN 1 ELSE 0)

\* pipe_stdin: connect_read_pipe returns; buffer = b"" and the task reaches
\* its first read.
FwdConnected ==
    /\ pc["STDIN"] = "start" /\ running = "none" /\ ~cancelReq["STDIN"]
    /\ pc' = [pc EXCEPT !["STDIN"] = "read"]
    /\ UNCHANGED <<otherVars, mainVars, envVars, faults, cancelReq, result, cause, buffer,
                   chunk, stdinClosed, running, fwd, dest, log, ioFailed, atCancel>>

\* read returns data and the write of it fails: proc_stdin.write() drops the
\* data on a lost pipe and drain() raises; out_stream.buffer.write() raises.
FwdReadWriteFail(d) ==
    /\ pc[d] = "read" /\ running = "none" /\ ~cancelReq[d]
    /\ src[d] # <<>>
    /\ broken[d]
    /\ src' = [src EXCEPT ![d] = RestAfter(@, ReadChunk(@))]
    /\ Apply(d, Except(d, buffer[d], log, "error", dest[d], FALSE))
    /\ UNCHANGED <<otherVars, mainVars, srcEof, total, broken, sinkOk, faults, stalls,
                   childExited, returncode, cancelReq, chunk, fwd, atCancel>>

\* read returns data and the write of it stays pending: pipe_stdin has handed
\* the data to the transport and is suspended in drain(); pipe_output sits in
\* the blocking write.
FwdReadPending_BufferFirst(d) ==
    /\ pc[d] = "read" /\ running = "none" /\ ~cancelReq[d]
    /\ src[d] # <<>>
    /\ ~broken[d]
    /\ stalls < MaxStalls
    /\ stalls' = stalls + 1
    /\ LET data == ReadChunk(src[d])
       IN  /\ src' = [src EXCEPT ![d] = RestAfter(@, data)]
           /\ chunk' = [chunk EXCEPT ![d] = data]
           /\ buffer' = [buffer EXCEPT ![d] = @ \o data]
           /\ IF d = "STDIN"
              THEN /\ dest' = [dest EXCEPT ![d] = Write(@, data)]
                   /\ fwd' = [fwd EXCEPT ![d] = @ \o data]
                   /\ pc' = [pc EXCEPT ![d] = "drain"]
                   /\ UNCHANGED running
              ELSE /\ pc' = [pc EXCEPT ![d] = "write"]
                   /\ running' = d
                   /\ UNCHANGED <<dest, fwd>>
    /\ UNCHANGED <<otherVars, mainVars, srcEof, total, broken, sinkOk, childExited, returncode,
                   faults, cancelReq, result, cause, log, stdinClosed,
                   ioFailed, atCancel>>
FwdReadPending(d) ==
    /\ pc[d] = "read" /\ running = "none" /\ ~cancelReq[d]
    /\ src[d] # <<>>
    /\ ~broken[d]
    /\ stalls < MaxStalls
    /\ stalls' = stalls + 1
    /\ LET data == ReadChunk(src[d])
       IN  /\ src' = [src EXCEPT ![d] = RestAfter(@, data)]
           /\ chunk' = [chunk EXCEPT ![d] = data]
           /\ IF d = "STDIN"
              THEN /\ dest' = [dest EXCEPT ![d] = Write(@, data)]
                   /\ fwd' = [fwd EXCEPT ![d] = @ \o data]
                   /\ pc' = [pc EXCEPT ![d] = "drain"]
                   /\ UNCHANGED running
              ELSE /\ pc' = [pc EXCEPT ![d] = "write"]
                   /\ running' = d
                   /\ UNCHANGED <<dest, fwd>>
    /\ UNCHANGED <<otherVars, mainVars, srcEof, total, broken, sinkOk, childExited, returncode,
                   faults, cancelReq, result, cause, buffer, log, stdinClosed,
                   ioFailed, atCancel>>

\* read returns data, the write completes at once and the iteration runs to
\* its end.
FwdRead(d) ==
    /\ pc[d] = "read" /\ running = "none" /\ ~cancelReq[d]
    /\ src[d] # <<>>
    /\ ~broken[d]
    /\ LET data == ReadChunk(src[d])
       IN  /\ src' = [src EXCEPT ![d] = RestAfter(@, data)]
           /\ fwd' = [fwd EXCEPT ![d] = @ \o data]
           /\ Apply(d, Logged(d, data, Write(dest[d], data)))
    /\ UNCHANGED <<otherVars, mainVars, srcEof, total, broken, sinkOk, faults, stalls,
                   childExited, returncode, cancelReq, chunk, atCancel>>

\* read returns b"": break, then the finally block.
FwdEof(d) ==
    /\ pc[d] = "read" /\ running = "none" /\ ~cancelReq[d]
    /\ src[d] = <<>> /\ srcEof[d]
    /\ \E st \in BOOLEAN :
          LET o == Finally(d, buffer[d], log, "ok", "eof", FALSE, dest[d], st)
          IN  Pends(st, o) /\ Apply(d, o)
    /\ UNCHANGED <<otherVars, mainVars, src, srcEof, total, broken, sinkOk, childExited,
                   returncode, faults, cancelReq, chunk, fwd, atCancel>>

\* read raises.
FwdReadFail(d) ==
    /\ pc[d] = "read" /\ running = "none" /\ ~cancelReq[d]
    /\ faults < MaxFaults
    /\ faults' = faults + 1
    /\ \E st \in BOOLEAN :
          LET o == Except(d, buffer[d], log, "error", dest[d], st)
          IN  Pends(st, o) /\ Apply(d, o)
    /\ UNCHANGED <<otherVars, mainVars, src, srcEof, total, broken, sinkOk, childExited,
                   returncode, cancelReq, chunk, fwd, atCancel>>

\* pipe_stdin: drain() returns.
FwdDrained ==
    /\ pc["STDIN"] = "drain" /\ running = "none" /\ ~cancelReq["STDIN"]
    /\ ~broken["STDIN"]
    /\ chunk' = [chunk EXCEPT !["STDIN"] = <<>>]
    /\ Apply("STDIN", Logged("STDIN", chunk["STDIN"], dest["STDIN"]))
    /\ UNCHANGED <<otherVars, mainVars, envVars, faults, cancelReq, fwd, atCancel>>

\* pipe_stdin: drain() raises (the pipe to the child is lost).
FwdDrainFail ==
    /\ pc["STDIN"] = "drain" /\ running = "none" /\ ~cancelReq["STDIN"]
    /\ broken["STDIN"]
    /\ chunk' = [chunk EXCEPT !["STDIN"] = <<>>]
    /\ Apply("STDIN", Except("STDIN", buffer["STDIN"], log, "error", dest["STDIN"], FALSE))
    /\ UNCHANGED <<otherVars, mainVars, envVars, faults, cancelReq, fwd, atCancel>>

\* pipe_output: the blocking write and flush of the loop return.
FwdWritten(d) ==
    /\ d \in Out /\ pc[d] = "write" /\ running = d
    /\ ~broken[d]
    /\ fwd' = [fwd EXCEPT ![d] = @ \o chunk[d]]
    /\ chunk' = [chunk EXCEPT ![d] = <<>>]
    /\ Apply(d, Logged(d, chunk[d], Write(dest[d], chunk[d])))
    /\ UNCHANGED <<otherVars, mainVars, envVars, faults, cancelReq, atCancel>>

\* pipe_output: the blocking write of the loop raises.
FwdWriteFail(d) ==
    /\ d \in Out /\ pc[d] = "write" /\ running = d
    /\ broken[d]
    /\ chunk' = [chunk EXCEPT ![d] = <<>>]
    /\ Apply(d, Except(d, buffer[d], log, "error", dest[d], FALSE))
    /\ UNCHANGED <<otherVars, mainVars, envVars, faults, cancelReq, fwd, atCancel>>

\* pipe_output: the blocking write and flush of the finally block return.
FwdFinWritten(d) ==
    /\ d \in Out /\ pc[d] = "finwrite" /\ running = d
    /\ ~broken[d]
    /\ dest' = [dest EXCEPT ![d] = Write(@, buffer[d])]
    /\ pc' = [pc EXCEPT ![d] = "done"]
    /\ running' = "none"
    /\ UNCHANGED <<otherVars, mainVars, envVars, faults, cancelReq, result, cause, buffer,
                   chunk, stdinClosed, fwd, log, ioFailed, atCancel>>

\* pipe_output: the blocking write of the finally block raises; nothing
\* catches it.
FwdFinWriteFail(d) ==
    /\ d \in Out /\ pc[d] = "finwrite" /\ running = d
    /\ broken[d]
    /\ result' = [result EXCEPT ![d] = "error"]
    /\ ioFailed' = [ioFailed EXCEPT ![d] = TRUE]
    /\ pc' = [pc EXCEPT ![d] = "done"]
    /\ running' = "none"
    /\ UNCHANGED <<otherVars, mainVars, envVars, faults, cancelReq, cause, buffer, chunk,
                   stdinClosed, fwd, dest, log, atCancel>>

\* CancelledError is thrown into the task where it is suspended.  pipe_stdin
\* cancelled before its try statement (not started, or in connect_read_pipe)
\* ends without running its finally block.
FwdCancelled(d) ==
    /\ cancelReq[d] /\ running = "none"
    /\ pc[d] \in {"start", "read", "drain"}
    /\ atCancel' = [atCancel EXCEPT ![d] = <<pc[d], buffer[d]>>]
    /\ chunk' = [chunk EXCEPT ![d] = <<>>]
    /\ IF pc[d] = "start"
       THEN /\ pc' = [pc EXCEPT ![d] = "done"]
            /\ result' = [result EXCEPT ![d] = "cancelled"]
            /\ cause' = [cause EXCEPT ![d] = "cancel"]
            /\ UNCHANGED <<buffer, log, dest, stdinClosed, ioFailed, running, stalls>>
       ELSE \E st \in BOOLEAN :
               LET o == Finally(d, buffer[d], log, "cancelled", "cancel", FALSE,
                                dest[d], st)
               IN  Pends(st, o) /\ Apply(d, o)
    /\ UNCHANGED <<otherVars, mainVars, src, srcEof, total, broken, sinkOk, childExited,
                   returncode, faults, cancelReq, fwd>>

\* ------------------------------------------------------------------- main
\* log("EXIT", ...) and sys.exit(proc.returncode)
ExitRecord(l, rc) == Log(l, "EXIT", <<rc>>)

\* An exception leaves main(): asyncio.run cancels the tasks still pending,
\* runs them to their end and lets the exception through.
Abort ==
    /\ mainPc' = "aborting"
    /\ cancelReq' = [d \in Fwd |-> cancelReq[d] \/ pc[d] # "done"]
    /\ running' = "none"
    /\ UNCHANGED <<idx, exitStatus, log>>

\* "await task" has returned for Tasks[idx] (or raised what the task raised):
\* the next iteration of the for loop, or the two lines after it.
Resolve(d) ==
    IF result[d] = "error"
    THEN Abort
    ELSE IF idx < Len(Tasks)
    THEN /\ mainPc' = "loop"
         /\ idx' = idx + 1
         /\ running' = "main"
         /\ UNCHANGED <<exitStatus, log, cancelReq>>
    ELSE IF sinkOk
    THEN /\ log' = ExitRecord(log, returncode)
         /\ mainPc' = "exited"
         /\ exitStatus' = ExitStatus(returncode)
         /\ running' = "none"
         /\ UNCHANGED <<idx, cancelReq>>
    ELSE Abort

\* log("STARTUP", ...) and the call of create_subprocess_exec
MainStartup ==
    /\ mainPc = "startup"
    /\ IF sinkOk
       THEN /\ log' = Log(log, "STARTUP", ArgsData)
            /\ mainPc' = "spawn"
            /\ UNCHANGED exitStatus
       ELSE /\ mainPc' = "exited"
            /\ exitStatus' = UncaughtStatus
            /\ UNCHANGED log
    /\ UNCHANGED <<otherVars, idx, envVars, faults, pc, cancelReq, result, cause, buffer, chunk,
                   stdinClosed, running, fwd, dest, ioFailed, atCancel>>

\* create_subprocess_exec returns; the three tasks are created; main waits
\* for the child.  The tasks take their first run before main can run again
\* after a suspension: pipe_output up to its first read, pipe_stdin into
\* connect_read_pipe.
MainSpawned ==
    /\ mainPc = "spawn"
    /\ mainPc' = "wait"
    /\ pc' = [d \in Fwd |-> IF d = "STDIN" THEN "start" ELSE "read"]
    /\ UNCHANGED <<otherVars, idx, exitStatus, envVars, faults, cancelReq, result, cause, buffer,
                   chunk, stdinClosed, running, fwd, dest, log, ioFailed, atCancel>>

\* create_subprocess_exec raises: nothing catches it.
MainSpawnFail_LogsExit ==
    /\ mainPc = "spawn"
    /\ mainPc' = "exited"
    /\ exitStatus' = UncaughtStatus
    /\ log' = Log(log, "EXIT", <<UncaughtStatus>>)
    /\ UNCHANGED <<otherVars, idx, envVars, faults, pc, cancelReq, result, cause, buffer, chunk,
                   stdinClosed, running, fwd, dest, ioFailed, atCancel>>
MainSpawnFail ==
    /\ mainPc = "spawn"
    /\ mainPc' = "exited"
    /\ exitStatus' = UncaughtStatus
    /\ UNCHANGED <<otherVars, idx, envVars, faults, pc, cancelReq, result, cause, buffer, chunk,
                   stdinClosed, running, fwd, dest, log, ioFailed, atCancel>>

\* proc.wait() returns.
MainWaitReturns ==
    /\ mainPc = "wait" /\ childExited /\ running = "none"
    /\ mainPc' = "loop"
    /\ running' = "main"
    /\ UNCHANGED <<otherVars, idx, exitStatus, envVars, faults, pc, cancelReq, result, cause, buffer,
                   chunk, stdinClosed, fwd, dest, log, ioFailed, atCancel>>

\* for task in tasks: task.cancel(); await task.  On a finished task cancel()
\* does nothing and await returns (or raises) at once; otherwise main is
\* suspended until the task ends.
MainCancel ==
    /\ mainPc = "loop" /\ running = "main"
    /\ LET d == Tasks[idx]
       IN  IF pc[d] = "done"
           THEN Resolve(d)
           ELSE /\ cancelReq' = [cancelReq EXCEPT ![d] = TRUE]
                /\ mainPc' = "await"
                /\ running' = "none"
                /\ UNCHANGED <<idx, exitStatus, log>>
    /\ UNCHANGED <<otherVars, envVars, faults, pc, result, cause, buffer, chunk, stdinClosed, fwd,
                   dest, ioFailed, atCancel>>

\* The awaited task has ended.
MainAwaited ==
    /\ mainPc = "await" /\ running = "none"
    /\ pc[Tasks[idx]] = "done"
    /\ Resolve(Tasks[idx])
    /\ UNCHANGED <<otherVars, envVars, faults, pc, result, cause, buffer, chunk, stdinClosed, fwd,
                   dest, ioFailed, atCancel>>

\* asyncio.run: every task has ended; the exception leaves the interpreter.
MainAborted ==
    /\ mainPc = "aborting" /\ running = "none"
    /\ \A d \in Fwd : pc[d] = "done"
    /\ mainPc' = "exited"
    /\ exitStatus' = UncaughtStatus
    /\ UNCHANGED <<otherVars, idx, envVars, faults, pc, cancelReq, result, cause, buffer, chunk,
                   stdinClosed, running, fwd, dest, log, ioFailed, atCancel>>

\* ------------------------------------------------------------ specification
MainStep ==
    \/ MainStartup
    \/ MainSpawned
    \/ MainSpawnFail
    \/ MainWaitReturns
    \/ MainCancel
    \/ MainAwaited
    \/ MainAborted

FwdStep ==
    \/ FwdConnected
    \/ \E d \in Fwd : FwdRead(d)
    \/ \E d \in Fwd : FwdReadPending(d)
    \/ \E d \in Fwd : FwdReadWriteFail(d)
    \/ \E d \in Fwd : FwdEof(d)
    \/ \E d \in Fwd : FwdReadFail(d)
    \/ FwdDrained
    \/ FwdDrainFail
    \/ \E d \in Out : FwdWritten(d)
    \/ \E d \in Out : FwdWriteFail(d)
    \/ \E d \in Out : FwdFinWritten(d)
    \/ \E d \in Out : FwdFinWriteFail(d)
    \/ \E d \in Fwd : FwdCancelled(d)

EnvStep ==
    \/ \E d \in Fwd, nl \in BOOLEAN : SourceWrite(d, nl)
    \/ \E d \in Fwd : SourceClose(d)
    \/ \E rc \in RetCodes : ChildExit(rc)
    \/ \E d \in Fwd : Break(d)

Next == MainStep \/ FwdStep \/ EnvStep

\* the log file stays writable
Spec == Init /\ [][Next]_vars

\* the log file may become unwritable
NextSink == Next \/ SinkBreak

SpecSink == Init /\ [][NextSink]_vars

\* --------------------------------------------------- log() step by step
\* One append to the log file, at the grain of its system calls, and the
\* event loop that runs the four tasks that call log().  log() is a plain
\* function: it holds no await, so a task inside it cannot be suspended, and
\* the loop starts a task only when its thread is free.  A long line reaches
\* the file in more than one write, so a record is written here in two
\* pieces: the first by f.write(), the second when the with block closes f.

\* the event loop picks the ready task t and runs it
LoopRuns_Threads(t) ==
    /\ cur' = t
    /\ UNCHANGED <<proxyVars, linesVars, anonVars, apc, calls, file>>
LoopRuns(t) ==
    /\ cur = "none"
    /\ cur' = t
    /\ UNCHANGED <<proxyVars, linesVars, anonVars, apc, calls, file>>

\* the running task reaches an await (or its end): the thread is free again
Suspend(t) ==
    /\ cur = t
    /\ apc[t] = "idle"
    /\ cur' = "none"
    /\ UNCHANGED <<proxyVars, linesVars, anonVars, apc, calls, file>>

TotalCalls == calls["main"] + calls["STDIN"] + calls["STDOUT"] + calls["STDERR"]

\* with open(LOG_FILE, "a") as f:
LogOpen(t) ==
    /\ cur = t
    /\ apc[t] = "idle"
    /\ TotalCalls < MaxCalls
    /\ calls' = [calls EXCEPT ![t] = @ + 1]
    /\ apc' = [apc EXCEPT ![t] = "open"]
    /\ UNCHANGED <<proxyVars, linesVars, anonVars, cur, file>>

\* f.write(json.dumps(log_entry) + "\n"): the first piece reaches the file
LogWrite(t) ==
    /\ cur = t
    /\ apc[t] = "open"
    /\ file' = Append(file, [by |-> t, n |-> calls[t], part |-> 1])
    /\ apc' = [apc EXCEPT ![t] = "half"]
    /\ UNCHANGED <<proxyVars, linesVars, anonVars, cur, calls>>

\* the with block ends: f.close() writes the rest of the line
LogClose(t) ==
    /\ cur = t
    /\ apc[t] = "half"
    /\ file' = Append(file, [by |-> t, n |-> calls[t], part |-> 2])
    /\ apc' = [apc EXCEPT ![t] = "idle"]
    /\ UNCHANGED <<proxyVars, linesVars, anonVars, cur, calls>>

NextAppend ==
    \/ \E t \in Loggers : LoopRuns(t)
    \/ \E t \in Loggers : Suspend(t)
    \/ \E t \in Loggers : LogOpen(t)
    \/ \E t \in Loggers : LogWrite(t)
    \/ \E t \in Loggers : LogClose(t)

SpecAppend == Init /\ [][NextAppend]_vars

\* ------------------------------------------------------ the Reassembler
\* The part of the read loop that feeds the log, without the forwarding:
\* buffer += data, the loop over the complete lines, and the flush of the
\* finally block.  The same lines serve pipe_stdin and pipe_output.

\* the chunks a read can return after n bytes: 1..MaxChunk bytes, each a
\* newline or the number of its position in the stream
Chunks(n) ==
    UNION {{[i \in 1..k |-> IF i \in nls THEN NL ELSE n + i] : nls \in SUBSET (1..k)} :
             k \in 1..MaxChunk}

\* buffer += data; while b"\n" in buffer: ...
Feed_NoCarry(data) ==
    /\ ~ended
    /\ Len(fed) + Len(data) <= MaxLen
    /\ LET r == SplitLines(data, records, "STDIN", TRUE)
       IN  /\ rbuf' = r.buffer
           /\ records' = r.log
    /\ fed' = fed \o data
    /\ cuts' = cuts \cup {Len(fed) + Len(data)}
    /\ UNCHANGED <<proxyVars, appendVars, anonVars, ended>>
Feed(data) ==
    /\ ~ended
    /\ Len(fed) + Len(data) <= MaxLen
    /\ LET r == SplitLines(rbuf \o data, records, "STDIN", TRUE)
       IN  /\ rbuf' = r.buffer
           /\ records' = r.log
    /\ fed' = fed \o data
    /\ cuts' = cuts \cup {Len(fed) + Len(data)}
    /\ UNCHANGED <<proxyVars, appendVars, anonVars, ended>>

\* the read returns b"": break; finally: if buffer: log(direction, buffer)
Close ==
    /\ ~ended
    /\ records' = FlushRecord(records, "STDIN", rbuf)
    /\ ended' = TRUE
    /\ UNCHANGED <<proxyVars, appendVars, anonVars, fed, rbuf, cuts>>

NextLines ==
    \/ \E data \in Chunks(Len(fed)) : Feed(data)
    \/ Close

SpecLines == Init /\ [][NextLines]_vars

\* ------------------------------------------------------ anonymize_uuids.py
\* A string is a sequence of pieces: a piece is either a substring that
\* UUID_PATTERN matches or a run of text that holds no match.  Of a UUID-shaped
\* substring the model keeps its first group (head), the rest (tail, a
\* sequence of digits) and whether it is spelled with upper-case letters (the
\* pattern is compiled with re.IGNORECASE).  A text piece has the head "-".

\* first groups of the original UUIDs of a file (lower-case spelling)
Heads == {"a", "b"}

\* secrets.token_hex(4): the prefixes a run can draw; they differ from the
\* first groups of the originals
Prefixes == {"e", "f"}

\* the rest of an original UUID
Tails == {<<7, 7>>}

Uuids == [head : Heads, tail : Tails, up : BOOLEAN]

Text == [head |-> "-", tail |-> <<>>, up |-> FALSE]

IsUuid(piece) == piece.head # "-"

\* uuid.lower()
Lower(u) == [u EXCEPT !.up = FALSE]

RECURSIVE Digits(_)
Digits(n) == IF n < 10 THEN <<n>> ELSE Digits(n \div 10) \o <<n % 10>>

RECURSIVE Pad(_)
Pad(ds) == IF Len(ds) < SeqWidth THEN Pad(<<0>> \o ds) ELSE ds

\* f"{counter['count']:012d}": the decimal digits, zero-padded to the width,
\* never cut
SeqNum(n) == Pad(Digits(n))

\* f"{prefix}-0000-0000-0000-{seq_num}"
Anonymized(p, n) == [head |-> p, tail |-> SeqNum(n), up |-> FALSE]

\* mapping[uuid_lower] = anonymized
Put(m, k, v) == [x \in DOMAIN m \cup {k} |-> IF x = k THEN v ELSE m[x]]

\* anonymize_uuid(uuid, mapping, prefix, counter): the identifier returned,
\* and the mapping and the counter as the call leaves them
AnonymizeUuid_NoLower(uuid, m, p, c) ==
    IF uuid \notin DOMAIN m
    THEN [result |-> Anonymized(p, c + 1),
          mapping |-> Put(m, uuid, Anonymized(p, c + 1)),
          counter |-> c + 1]
    ELSE [result |-> m[uuid], mapping |-> m, counter |-> c]
AnonymizeUuid(uuid, m, p, c) ==
    LET uuid_lower == Lower(uuid)
    IN  IF uuid_lower \notin DOMAIN m
        THEN [result |-> Anonymized(p, c + 1),
              mapping |-> Put(m, uuid_lower, Anonymized(p, c + 1)),
              counter |-> c + 1]
        ELSE [result |-> m[uuid_lower], mapping |-> m, counter |-> c]

\* prefix = generate_random_prefix(); mapping = {}; counter = {'count': 0}
AnonStart(p) ==
    /\ prefix = "none"
    /\ prefix' = p
    /\ mapping' = EmptyMap
    /\ counter' = 0
    /\ UNCHANGED <<proxyVars, appendVars, linesVars, lineIn, lineOut, asked, lineNo>>

\* one call of anonymize_uuid on the run's mapping, prefix and counter
AskUuid(u) ==
    /\ prefix # "none"
    /\ lineNo < MaxAsks
    /\ LET r == AnonymizeUuid(u, mapping, prefix, counter)
       IN  /\ mapping' = r.mapping
           /\ counter' = r.counter
           /\ lineIn' = u
           /\ lineOut' = r.result
           /\ asked' = asked \cup {<<u, r.result>>}
    /\ lineNo' = lineNo + 1
    /\ UNCHANGED <<proxyVars, appendVars, linesVars, prefix>>

NextUuid ==
    \/ \E p \in Prefixes : AnonStart(p)
    \/ \E u \in Uuids : AskUuid(u)

SpecUuid == Init /\ [][NextUuid]_vars

\* JSON values, as json.loads returns them: <<"str", pieces>>, <<"num", <<>>>>
\* (a number, a boolean or null), <<"arr", items>> and <<"obj", members>>, a
\* member being <<name, value>> with the name a string (its pieces).
Num == <<"num", <<>>>>

Pieces == Uuids \cup {Text}

\* the strings of at most n pieces
Strings(n) == UNION {[1..k -> Pieces] : k \in 0..n}

Leaves == {<<"str", str>> : str \in Strings(MaxPieces)} \cup {Num}

SmallLeaves == {<<"str", str>> : str \in Strings(1)} \cup {Num}

\* arrays of leaves and objects of one member
Containers ==
    {<<"arr", items>> : items \in UNION {[1..k -> SmallLeaves] : k \in 0..MaxItems}}
    \cup {<<"obj", <<>>>>}
    \cup {<<"obj", <<<<k, v>>>>>> : k \in Strings(1), v \in SmallLeaves}

\* the values of a line: leaves, containers, and containers of one container
Values ==
    Leaves \cup Containers
    \cup {<<"arr", <<v>>>> : v \in Containers}
    \cup {<<"obj", <<<<k, v>>>>>> : k \in Strings(1), v \in Containers}

RECURSIVE SubPieces(_, _, _, _, _)
RECURSIVE AnonymizeValue(_, _, _, _, _)
RECURSIVE MapItems(_, _, _, _, _)
RECURSIVE MapMembers(_, _, _, _, _)

\* UUID_PATTERN.sub(lambda m: anonymize_uuid(m.group(0), ...), value): the
\* matches are replaced from left to right, the text between them is kept.
\* a collects the <<uuid, result>> of the calls of anonymize_uuid.
SubPieces(str, m, p, c, a) ==
    IF str = <<>>
    THEN [value |-> <<>>, mapping |-> m, counter |-> c, asked |-> a]
    ELSE LET h == Head(str)
             r == IF IsUuid(h)
                  THEN AnonymizeUuid(h, m, p, c)
                  ELSE [result |-> h, mapping |-> m, counter |-> c]
             a2 == IF IsUuid(h) THEN a \cup {<<h, r.result>>} ELSE a
             t == SubPieces(Tail(str), r.mapping, p, r.counter, a2)
         IN  [t EXCEPT !.value = <<r.result>> \o @]

\* [anonymize_value(item, ...) for item in value]
MapItems(items, m, p, c, a) ==
    IF items = <<>>
    THEN [value |-> <<>>, mapping |-> m, counter |-> c, asked |-> a]
    ELSE LET r == AnonymizeValue(Head(items), m, p, c, a)
             t == MapItems(Tail(items), r.mapping, p, r.counter, r.asked)
         IN  [t EXCEPT !.value = <<r.value>> \o @]

\* {k: anonymize_value(v, ...) for k, v in value.items()}
MapMembers(members, m, p, c, a) ==
    IF members = <<>>
    THEN [value |-> <<>>, mapping |-> m, counter |-> c, asked |-> a]
    ELSE LET k == Head(members)[1]
             r == AnonymizeValue(Head(members)[2], m, p, c, a)
             t == MapMembers(Tail(members), r.mapping, p, r.counter, r.asked)
         IN  [t EXCEPT !.value = <<<<k, r.value>>>> \o @]

\* anonymize_value(value, mapping, prefix, counter)
AnonymizeValue(v, m, p, c, a) ==
    CASE v[1] = "str" ->
           LET r == SubPieces(v[2], m, p, c, a) IN [r EXCEPT !.value = <<"str", @>>]
      [] v[1] = "obj" ->
           LET r == MapMembers(v[2], m, p, c, a) IN [r EXCEPT !.value = <<"obj", @>>]
      [] v[1] = "arr" ->
           LET r == MapItems(v[2], m, p, c, a) IN [r EXCEPT !.value = <<"arr", @>>]
      [] OTHER -> [value |-> v, mapping |-> m, counter |-> c, asked |-> a]

\* one line of the file that parses as JSON: data = json.loads(line);
\* anonymized_data = anonymize_value(data, mapping, prefix, counter)
AnonLine(v) ==
    /\ prefix # "none"
    /\ lineNo < MaxLines
    /\ LET r == AnonymizeValue(v, mapping, prefix, counter, asked)
       IN  /\ mapping' = r.mapping
           /\ counter' = r.counter
           /\ asked' = r.asked
           /\ lineIn' = v
           /\ lineOut' = r.value
    /\ lineNo' = lineNo + 1
    /\ UNCHANGED <<proxyVars, appendVars, linesVars, prefix>>

NextAnon ==
    \/ \E p \in Prefixes : AnonStart(p)
    \/ \E v \in Values : AnonLine(v)

SpecAnon == Init /\ [][NextAnon]_vars

\* the UUIDs spelled anywhere in a value: in its strings, in the items of its
\* arrays, in the names and the values of its objects
RECURSIVE UuidsIn(_)
UuidsIn(v) ==
    CASE v[1] = "str" -> {v[2][i] : i \in {j \in 1..Len(v[2]) : IsUuid(v[2][j])}}
      [] v[1] = "arr" -> UNION {UuidsIn(v[2][i]) : i \in 1..Len(v[2])}
      [] v[1] = "obj" -> UNION {UuidsIn(<<"str", v[2][i][1]>>) \cup UuidsIn(v[2][i][2]) :
                                  i \in 1..Len(v[2])}
      [] OTHER -> {}

\* w has the shape of v: the same kind, as many pieces, items and members,
\* the same primitives
RECURSIVE SameShape(_, _)
SameShape(v, w) ==
    /\ v[1] = w[1]
    /\ Len(v[2]) = Len(w[2])
    /\ CASE v[1] = "arr" -> \A i \in 1..Len(v[2]) : SameShape(v[2][i], w[2][i])
         [] v[1] = "obj" -> \A i \in 1..Len(v[2]) :
                               /\ Len(v[2][i][1]) = Len(w[2][i][1])
                               /\ SameShape(v[2][i][2], w[2][i][2])
         [] v[1] = "str" -> \A i \in 1..Len(v[2]) : IsUuid(v[2][i]) \/ w[2][i] = v[2][i]
         [] OTHER -> TRUE

\* ------------------------------------------------------------ observations
IsPrefix(a, b) == Len(a) <= Len(b) /\ SubSeq(b, 1, Len(a)) = a

\* the payloads of the records tagged tag, in the order of the log
Payloads(tag) ==
    LET recs == SelectSeq(log, LAMBDA r : r.fd = tag)
    IN  [i \in 1..Len(recs) |-> recs[i].data]

RECURSIVE Flat(_)
Flat(ss) == IF ss = <<>> THEN <<>> ELSE Head(ss) \o Flat(Tail(ss))

\* the pieces of a byte sequence between newlines, the empty ones left out
RECURSIVE NonEmptyLines(_)
NonEmptyLines(b) ==
    IF b = <<>> THEN <<>>
    ELSE IF ~HasNL(b) THEN <<b>>
    ELSE LET i == FirstNL(b)
             rest == NonEmptyLines(SubSeq(b, i + 1, Len(b)))
         IN  IF i = 1 THEN rest ELSE <<SubSeq(b, 1, i - 1)>> \o rest

Increasing(b) == \A i, j \in 1..Len(b) : i < j => b[i] < b[j]

\* the child was spawned: the three tasks were created
Spawned == pc["STDIN"] # "none"

\* create_subprocess_exec raised: main has ended after its STARTUP record
\* with no task created
SpawnFailed == mainPc = "exited" /\ ~Spawned /\ log # <<>>

\* the bytes Forwarder d has read from its source
ReadSoFar(d) == SubSeq(total[d], 1, Len(total[d]) - Len(src[d]))

\* the bytes after the last newline of a byte sequence
RECURSIVE SinceNL(_)
SinceNL(b) == IF HasNL(b) THEN SinceNL(SubSeq(b, FirstNL(b) + 1, Len(b))) ELSE b

\* Forwarder d is suspended in an await of its loop, or its finally block has
\* started (the block leaves buffer as it finds it)
AtSuspension(d) == pc[d] \in {"read", "drain", "finwrite", "done"}

\* a byte sequence without its newline bytes
NoNL(b) == SelectSeq(b, LAMBDA x : x # NL)

Bytes(b) == {b[i] : i \in 1..Len(b)}

\* the bytes of direction d that are in its records
LoggedBytes(d) == NoNL(Flat(Payloads(d)))

\* the bytes whose write to the destination of d has completed: for the
\* input direction the chunk handed to proc_stdin.write() is not among them
\* while drain() has not returned
Completed(d) ==
    IF pc[d] = "drain" THEN SubSeq(dest[d], 1, Len(dest[d]) - Len(chunk[d])) ELSE dest[d]

\* the write of Forwarder d has not completed: its destination is stalled
WritePending(d) == pc[d] \in {"drain", "write", "finwrite"}

\* ------------------------------------------------------------------ claims

\* C1: output pass-through fidelity.  For stdout and stderr, what the Forwarder
\* has written to the proxy's stream is at every moment a prefix of what the
\* child wrote to it, and is all of it once the Forwarder has finished by
\* end-of-stream or by cancellation.
C1_OutputFidelity ==
    \A d \in Out :
        /\ IsPrefix(dest[d], total[d])
        /\ (pc[d] = "done" /\ cause[d] \in {"eof", "cancel"}) => dest[d] = total[d]

\* C2: input pass-through fidelity.  What pipe_stdin has written to the child's
\* stdin is at every moment a prefix of the bytes delivered on the proxy's
\* stdin (nothing twice, nothing out of order, nothing changed), and is all of
\* them once the Forwarder has seen end-of-input.
C2_InputFidelity ==
    /\ IsPrefix(dest["STDIN"], total["STDIN"])
    /\ cause["STDIN"] = "eof" => dest["STDIN"] = total["STDIN"]

\* C2 witness: end-of-input seen after three bytes, which takes two reads.
C2_Witness ==
    /\ cause["STDIN"] = "eof"
    /\ Len(dest["STDIN"]) = 3
    /\ HasNL(dest["STDIN"])

\* C3: exit-status transparency.  Whenever the child was spawned and has
\* terminated and the proxy has terminated, the proxy's exit status is the
\* child's return code.
C3_ExitStatus ==
    (mainPc = "exited" /\ childExited) => exitStatus = returncode

\* C4: exactly-once logging per line.  When a Forwarder has ended, its records
\* are exactly the non-empty lines of the bytes it read and forwarded, in
\* order, the unterminated remainder included: none twice, none missing.
C4_ExactlyOnce ==
    \A d \in Fwd : pc[d] = "done" => Payloads(d) = NonEmptyLines(fwd[d])

\* C5: per-stream failure containment.  A Forwarder in which a read or a write
\* has failed has appended exactly one record tagged with its error variant,
\* and a Forwarder in which none has failed has appended none.
C5_OneErrorRecord ==
    \A d \in Fwd :
        Len(Payloads(ErrTag(d))) = (IF ioFailed[d] THEN 1 ELSE 0)

\* C6: a failure in a Forwarder never aborts the Supervisor.  No Forwarder
\* task ends with an exception, main is never left by an exception, and when
\* the proxy has terminated after the child the last record is the EXIT
\* record.
C6_FailureContained ==
    /\ \A d \in Fwd : result[d] # "error"
    /\ mainPc # "aborting"
    /\ (mainPc = "exited" /\ childExited) =>
           (log # <<>> /\ log[Len(log)].fd = "EXIT")

\* C7: logging is best-effort.  No Forwarder leaves its loop because an append
\* to the log failed.
C7_LogBestEffort ==
    \A d \in Fwd : cause[d] # "log"

\* C8: backpressure isolation.  While the write of one Forwarder has not
\* completed, each of the other two that is waiting in its read with data to
\* read can take its step.
C8_Isolation ==
    \A d \in Fwd : WritePending(d) =>
        \A e \in Fwd \ {d} :
            (pc[e] = "read" /\ src[e] # <<>> /\ ~cancelReq[e]) =>
                ENABLED (FwdRead(e) \/ FwdReadPending(e) \/ FwdReadWriteFail(e))

\* C9: cancellation still flushes.  A Forwarder cancelled while suspended in
\* its read or in drain with a non-empty buffer has appended exactly one
\* record with those bytes under its direction, as the last of its records.
C9_CancelFlush ==
    \A d \in Fwd :
        (atCancel[d][1] \in {"read", "drain"} /\ atCancel[d][2] # <<>>) =>
            LET p == Payloads(d)
            IN  /\ p # <<>>
                /\ p[Len(p)] = atCancel[d][2]
                /\ Cardinality({i \in 1..Len(p) : p[i] = atCancel[d][2]}) = 1

\* C9 witness: pipe_stdin cancelled in drain and pipe_output cancelled in its
\* read, each with bytes in its buffer.
C9_Witness ==
    /\ atCancel["STDIN"][1] = "drain" /\ atCancel["STDIN"][2] # <<>>
    /\ atCancel["STDOUT"][1] = "read" /\ atCancel["STDOUT"][2] # <<>>
    /\ pc["STDIN"] = "done" /\ pc["STDOUT"] = "done"

\* C10: per-direction order.  The bytes of one direction's records appear in
\* the log in the order in which they were read (every byte carries its
\* position in its stream), the remainder record last.
C10_Order ==
    \A d \in Fwd : Increasing(Flat(Payloads(d)))

\* C10 witness: two records of one direction, the second the final remainder,
\* with a record of another Forwarder appended between them.
C10_Witness ==
    \E d \in Fwd :
        /\ pc[d] = "done"
        /\ Len(Payloads(d)) = 2
        /\ \E i, j, k \in 1..Len(log) :
              /\ i < j /\ j < k
              /\ log[i].fd = d /\ log[k].fd = d
              /\ log[j].fd \in {ErrTag(e) : e \in Fwd \ {d}} \cup (Fwd \ {d})

\* C11: sink write serialization.  At most one task is inside an append (between
\* the open and the close of the log file), that task is the one the event
\* loop's thread is running, so that no other task can be started before the
\* append ends, and in the file the two pieces of every record are adjacent:
\* no piece of another record lies between them.
C11_Serialized ==
    /\ Cardinality({t \in Loggers : apc[t] # "idle"}) <= 1
    /\ \A t \in Loggers : apc[t] # "idle" => cur = t
    /\ \A i \in 1..Len(file) :
          /\ file[i].part = 1 =>
                (i < Len(file) => file[i + 1] = [file[i] EXCEPT !.part = 2])
          /\ file[i].part = 2 =>
                (i > 1 /\ file[i - 1] = [file[i] EXCEPT !.part = 1])

\* C11 witness: a Forwarder is in the middle of an append (the first piece
\* written, the file still open) after two other tasks have appended records.
C11_Witness ==
    \E t \in Fwd :
        /\ apc[t] = "half"
        /\ Cardinality({file[i].by : i \in 1..Len(file)} \ {t}) >= 2

\* C12: lifecycle record ordering.  The STARTUP record is the first record and
\* the only one of its kind; there is never more than one EXIT record; an EXIT
\* record in the log is the last record, carries the child's return code, and
\* was appended with the child terminated and the three Forwarders ended; and
\* when the child was spawned and the proxy has terminated, there is exactly
\* one EXIT record.
C12_Lifecycle ==
    /\ log # <<>> => (log[1].fd = "STARTUP" /\ Len(Payloads("STARTUP")) = 1)
    /\ Len(Payloads("EXIT")) <= 1
    /\ \A i \in 1..Len(log) :
          log[i].fd = "EXIT" =>
              /\ i = Len(log)
              /\ log[i].data = <<returncode>>
              /\ childExited
              /\ \A d \in Fwd : pc[d] = "done"
    /\ (Spawned /\ mainPc = "exited") => Len(Payloads("EXIT")) = 1

\* C13: spawn failure is fatal and silent in the log.  When spawning the child
\* has failed, the proxy has ended with the status of an uncaught exception,
\* no Forwarder was started, nothing was forwarded or closed, and the log
\* holds the STARTUP record and nothing else: no STDIN/STDOUT/STDERR record,
\* no error record and no EXIT record.
C13_SpawnFailure ==
    SpawnFailed =>
        /\ exitStatus = UncaughtStatus
        /\ \A d \in Fwd : pc[d] = "none" /\ result[d] = "none" /\ dest[d] = <<>>
        /\ ~stdinClosed
        /\ ~childExited
        /\ log = <<[fd |-> "STARTUP", data |-> ArgsData]>>

\* C13 witness: the spawn has failed.
C13_Witness == SpawnFailed /\ exitStatus # 0

\* C14: the UUID mapping is one-to-one and consistent.  Over the calls of
\* anonymize_uuid made so far on one mapping, prefix and counter: two calls
\* returned the same identifier exactly when their UUIDs are equal up to case;
\* the counter is the number of mapping entries; no two entries hold the same
\* identifier; and every identifier ever returned is still the entry of its
\* lower-cased UUID (no entry was changed by a later call).
C14_OneToOne ==
    /\ \A x, y \in asked : (Lower(x[1]) = Lower(y[1])) <=> (x[2] = y[2])
    /\ counter = Cardinality(DOMAIN mapping)
    /\ \A j, k \in DOMAIN mapping : j # k => mapping[j] # mapping[k]
    /\ \A x \in asked : Lower(x[1]) \in DOMAIN mapping /\ mapping[Lower(x[1])] = x[2]

\* C14 witness: one UUID was asked in both spellings and another UUID too,
\* the last call repeating a UUID already mapped.
C14_Witness ==
    /\ counter = 2
    /\ lineNo = 4
    /\ \E x, y \in asked : x[1] # y[1] /\ Lower(x[1]) = Lower(y[1])
    /\ lineIn.up

\* C15: the anonymizer replaces all occurrences.  The value written for a
\* line has the shape of the value read, and no UUID of the value read is
\* spelled anywhere in it: not in a string at any depth, not in an item of an
\* array, not in the name of a member of an object.
C15_AllReplaced ==
    lineNo > 0 =>
        /\ SameShape(lineIn, lineOut)
        /\ UuidsIn(lineOut) \cap UuidsIn(lineIn) = {}

\* C16: write-before-log.  At every moment the bytes contained in a direction's
\* records are bytes whose write to the direction's destination has completed
\* (for the input direction: whose drain has returned), in the order in which
\* they were written, the bytes in its buffer are such bytes too, and a chunk
\* whose write is still pending is neither in a record nor in the buffer.
C16_WriteBeforeLog ==
    \A d \in Fwd :
        /\ IsPrefix(LoggedBytes(d), NoNL(Completed(d)))
        /\ Bytes(NoNL(buffer[d])) \subseteq Bytes(Completed(d))
        /\ WritePending(d) =>
               Bytes(NoNL(chunk[d])) \cap (Bytes(LoggedBytes(d)) \cup Bytes(buffer[d])) = {}

\* C16 witness: a Forwarder has logged a record and the write of its next
\* chunk is pending.
C16_Witness ==
    \E d \in Fwd :
        /\ pc[d] \in {"drain", "write"}
        /\ NoNL(chunk[d]) # <<>>
        /\ Payloads(d) # <<>>

\* C17: reassembly is independent of chunking.  Whatever the chunks in which a
\* byte sequence arrived, after end-of-stream and the flush the records logged
\* are the pieces of the whole sequence between newline bytes, the empty
\* pieces left out, in order.
C17_Reassembly ==
    ended => [i \in 1..Len(records) |-> records[i].data] = NonEmptyLines(fed)

\* C17 witness: a line and an unterminated second line, delivered in two
\* chunks split in the middle of the first line ('li', 'ne1\nline2').
C17_Witness ==
    /\ ended
    /\ fed = <<1, 2, NL, 4>>
    /\ cuts = {1, 4}
    /\ Len(records) = 2

\* C18: LineBuffer invariant.  At every await of a Forwarder on read or drain,
\* and from the start of its final flush, its buffer contains no newline byte
\* and is exactly the bytes it has read since the last newline it has read.
C18_LineBuffer ==
    \A d \in Fwd :
        AtSuspension(d) =>
            /\ ~HasNL(buffer[d])
            /\ buffer[d] = SinceNL(ReadSoFar(d))

\* C19: termination after child exit.  Once the child has terminated, main
\* goes on to cancel and await every Forwarder, to append the EXIT record and
\* to exit with the child's code, whether or not the sources reach
\* end-of-stream.  A run that refutes it is finite: the proxy has exited after
\* the child and main did not get through its loop over the tasks, or a
\* Forwarder has not ended, or the last record is not EXIT.
C19_Termination ==
    (childExited /\ mainPc = "exited") =>
        /\ idx = Len(Tasks)
        /\ \A d \in Fwd : pc[d] = "done"
        /\ log # <<>> /\ log[Len(log)].fd = "EXIT"
        /\ exitStatus = ExitStatus(returncode)

\* C20: the child's stdin is closed exactly when the read loop of pipe_stdin
\* has ended.  It is not closed while pipe_stdin is in its loop or has a
\* write to it pending, and once pipe_stdin has left its loop and ended (by
\* end-of-input, by a failure, or cancelled in its read or in drain) it has
\* closed it.  A task cancelled before it entered the loop is not concerned.
C20_StdinClosed ==
    /\ stdinClosed => (pc["STDIN"] = "done" /\ chunk["STDIN"] = <<>>)
    /\ (pc["STDIN"] = "done" /\ atCancel["STDIN"][1] # "start") => stdinClosed

====
